---------------------------- MODULE Spec2Model ----------------------------
(***************************************************************************)
(* A model of electrs' node adapter, src/daemon.rs: the bootstrap of       *)
(* Daemon::connect (the cancellable status-poll loop, the compatibility    *)
(* checks, the peer-wire connection and the verification of the best       *)
(* block), the batched existence helper Daemon::get_existing, the block    *)
(* reads (read_block, verify_blocks, get_genesis), the status poll and the *)
(* cookie parser on their own, and the threads that share the Daemon and   *)
(* its peer-wire Mutex (get_new_headers, new_block_notification).          *)
(*                                                                         *)
(* anyhow::Result values are records [ok |-> TRUE, val |-> v] and          *)
(* [ok |-> FALSE, err |-> e], where e is the error's context chain, the    *)
(* outermost context first.                                                *)
(***************************************************************************)
EXTENDS Integers, Sequences, FiniteSets, TLC

\* ------------------------------------------------------------------ bounds

\* Status polls of the bootstrap loop whose history is kept.
MaxPolls == 3
\* Largest header / block count the node reports.
MaxCount == 1
\* Largest block-file index and byte offset of a FilePosition.
MaxFileId == 1
MaxOffset == 0
\* Longest identifier sequence handed to get_existing.
MaxTxids == 2
\* Threads sharing the Daemon.
MaxThreads == 2
\* Longest list of block hashes handed to verify_blocks.
MaxHashes == 2
\* Largest small header / block count a single status poll is tried with.
MaxPollCount == 3
\* Longest cookie-file contents, in characters.
MaxCookieLen == 4

\* ------------------------------------------------------- program constants

\* bitcoind's RPC_IN_WARMUP error code.
RPC_IN_WARMUP == -28
\* The oldest supported bitcoind version, 21_00_00.
MIN_VERSION == 210000
\* std::time::Duration::from_secs(1)
SLEEP_SECS == 1
\* headers and blocks are u64; TLC's integers are 32 bits wide, so the
\* wrapping subtraction is taken modulo 2^16, far above MaxCount.
U64_MODULUS == 2 ^ 16

\* ------------------------------------------------------------ anyhow::Result

Ok(v) == [ok |-> TRUE, val |-> v]

Err(e) == [ok |-> FALSE, err |-> e]

\* Result::context / Context::with_context: wraps the error, keeps Ok.
context(r, msg) == IF r.ok THEN r ELSE Err(<<msg>> \o r.err)

\* bail!(msg)
bail(msg) == Err(<<msg>>)

Range(s) == {s[i] : i \in DOMAIN s}

\* ------------------------------------------------------------ the RPC errors

\* bitcoincore_rpc::Error values: a JSON-RPC server error with its code, a
\* transport failure, or a reply that does not parse.
RpcCodes == {RPC_IN_WARMUP, -32601, -1}

RpcErrors ==
    {[kind |-> "JsonRpc.Rpc", code |-> c] : c \in RpcCodes}
    \cup {[kind |-> "JsonRpc.Transport", code |-> 0], [kind |-> "Json", code |-> 0]}

\* Some(e) is <<e>>, None is << >>.
extract_bitcoind_error(err) ==
    IF err.kind = "JsonRpc.Rpc" THEN <<err>> ELSE << >>

\* --------------------------------------------------------------- rpc_poll

Counts == 0 .. MaxCount

\* What getblockchaininfo answers to the status poll: the fields rpc_poll
\* reads, or an error.
StatusReplies ==
    {[ok |-> TRUE, initial_block_download |-> d, headers |-> h, blocks |-> b] :
        d \in BOOLEAN, h \in Counts, b \in Counts}
    \cup {[ok |-> FALSE, error |-> e] : e \in RpcErrors}

Retry == [tag |-> "Retry"]

Done(result) == [tag |-> "Done", result |-> result]

\* A panic unwinds the calling thread.
Panic(msg) == [tag |-> "Panic", msg |-> msg]

\* info.headers - info.blocks on u64: with overflow checks (a debug build)
\* the subtraction panics when headers < blocks, without them it wraps.
u64_sub(a, b, overflow_checks) ==
    IF a >= b THEN Ok(a - b)
    ELSE IF overflow_checks THEN Err(<<"attempt to subtract with overflow">>)
    ELSE Ok((a - b) % U64_MODULUS)

\* rpc_poll gone wrong: a success is never taken as synced.
rpc_poll_never_done(reply, overflow_checks) ==
    IF reply.ok THEN Retry
    ELSE Done(context(Err(<<reply.error.kind>>), "daemon not available"))

\* rpc_poll gone wrong: every error is retried, not only RPC error -28.
rpc_poll_retry_all(reply, overflow_checks) ==
    IF reply.ok
    THEN IF reply.initial_block_download \/ reply.headers > reply.blocks
         THEN Retry ELSE Done(Ok("unit"))
    ELSE Retry

rpc_poll(reply, overflow_checks) ==
    IF reply.ok
    THEN LET left_blocks == u64_sub(reply.headers, reply.blocks, overflow_checks)
         IN  IF ~left_blocks.ok THEN Panic(left_blocks.err[1])
             ELSE IF reply.initial_block_download \/ left_blocks.val > 0
                  THEN Retry
                  ELSE Done(Ok("unit"))
    ELSE LET e == extract_bitcoind_error(reply.error)
         IN  IF e # << >> /\ e[1].code = RPC_IN_WARMUP
             THEN Retry
             ELSE Done(context(Err(<<reply.error.kind>>), "daemon not available"))

\* ------------------------------------------------- read_cookie, rpc_connect

\* str::splitn(2, ':'): the text before the first ':' and all the text after
\* it, or the whole text when it holds no ':'.
FirstColon(s) ==
    IF \E i \in 1 .. Len(s) : s[i] = ":"
    THEN CHOOSE i \in 1 .. Len(s) : s[i] = ":" /\ \A j \in 1 .. i - 1 : s[j] # ":"
    ELSE 0

\* The split gone wrong: the text is cut at its last ':'.
splitn2_at_last(s) ==
    IF \A i \in 1 .. Len(s) : s[i] # ":" THEN <<s>>
    ELSE LET i == CHOOSE i \in 1 .. Len(s) :
                    s[i] = ":" /\ \A j \in i + 1 .. Len(s) : s[j] # ":"
         IN  <<SubSeq(s, 1, i - 1), SubSeq(s, i + 1, Len(s))>>

splitn2(s) ==
    LET i == FirstColon(s)
    IN  IF i = 0 THEN <<s>> ELSE <<SubSeq(s, 1, i - 1), SubSeq(s, i + 1, Len(s))>>

\* A cookie file: whether it can be opened, whether it reads as UTF-8 text,
\* and its contents, a sequence of characters.
read_cookie(file) ==
    IF ~file.exists THEN bail("failed to open bitcoind cookie file")
    ELSE IF ~file.readable THEN bail("failed to read bitcoind cookie")
    ELSE LET parts == splitn2(file.contents)
         IN  IF Len(parts) # 2
             THEN bail("failed to parse bitcoind cookie - missing ':' separator")
             ELSE Ok(<<parts[1], parts[2]>>)

CookieFile(exists, readable, contents) ==
    [exists |-> exists, readable |-> readable, contents |-> contents]

\* config.daemon_auth.get_auth() as Daemon::connect meets it.
AuthConfigs ==
    {[mode |-> "None", user |-> << >>, pass |-> << >>, file |-> CookieFile(FALSE, FALSE, << >>)],
     [mode |-> "UserPass", user |-> <<"u">>, pass |-> <<"p">>,
      file |-> CookieFile(FALSE, FALSE, << >>)]}
    \cup {[mode |-> "CookieFile", user |-> << >>, pass |-> << >>, file |-> f] :
            f \in {CookieFile(FALSE, FALSE, << >>),
                   CookieFile(TRUE, TRUE, <<"u", "p">>),
                   CookieFile(TRUE, TRUE, <<"u", ":", "p">>)}}

\* The client rpc_connect builds; building it performs no network I/O.
rpc_connect(auth) ==
    CASE auth.mode = "None" -> Ok([auth |-> << >>])
      [] auth.mode = "UserPass" -> Ok([auth |-> <<auth.user, auth.pass>>])
      [] auth.mode = "CookieFile" ->
            LET c == read_cookie(auth.file)
            IN  IF c.ok THEN Ok([auth |-> c.val]) ELSE c

\* -------------------------------------------------- the cancellation flag

\* ExitFlag::poll: an error once the flag is set.
exit_flag_poll(flag) ==
    IF flag THEN bail("exiting due to signal") ELSE Ok("unit")

\* ------------------------------------------- block files and their reader

BlockHashes == {"h1", "h2"}

Blocks == {"B1", "B2"}

\* Block::block_hash: the hash a decoded block recomputes from its header.
block_hash(block) == IF block = "B1" THEN "h1" ELSE "h2"

FileIds == 0 .. MaxFileId

Offsets == 0 .. MaxOffset

FilePositions == [file_id : FileIds, offset : Offsets]

\* What lies at a position of a block file: the consensus encoding of a
\* block, or bytes that decode to none.
DiskContents == {[kind |-> "block", block |-> b] : b \in Blocks} \cup {[kind |-> "garbage", block |-> "none"]}

\* format!("blk{:05}.dat", file_id): the index in at least five decimal
\* digits, zero-padded.
Digits(n) ==
    LET RECURSIVE D(_)
        D(k) == IF k < 10 THEN <<k>> ELSE D(k \div 10) \o <<k % 10>>
    IN  D(n)

ZeroPad5(ds) ==
    LET RECURSIVE Z(_)
        Z(x) == IF Len(x) >= 5 THEN x ELSE Z(<<0>> \o x)
    IN  Z(ds)

FileName(file_id) == <<"blk">> \o ZeroPad5(Digits(file_id)) \o <<".dat">>

\* The node as the block reads meet it: whether it serves getblocklocations,
\* the position it holds for each hash, how many positions more or fewer
\* than asked it answers with, the files of the blocks directory and what
\* lies at each position.
World(rpc_ok, locOf, skew, files, disk) ==
    [rpc_ok |-> rpc_ok, locOf |-> locOf, skew |-> skew, files |-> files, disk |-> disk]

\* The node's reply to getblocklocations for a list of hashes.
node_getblocklocations(w, hashes) ==
    IF ~w.rpc_ok THEN [ok |-> FALSE, error |-> [kind |-> "JsonRpc.Rpc", code |-> -32601]]
    ELSE LET positions == [i \in 1 .. Len(hashes) |-> w.locOf[hashes[i]]]
         IN  [ok |-> TRUE,
              val |-> IF w.skew < 0 /\ Len(positions) > 0
                        THEN SubSeq(positions, 1, Len(positions) - 1)
                      ELSE IF w.skew > 0
                        THEN positions \o <<[file_id |-> 0, offset |-> 0]>>
                      ELSE positions]

Event(ev, arg) == [ev |-> ev, arg |-> arg]

\* An operation's outcome (a Result or a Panic) with the I/O it performed.
Out(res, io) == [res |-> res, io |-> io]

IsPanic(r) == "tag" \in DOMAIN r

get_block_locations(w, blockhashes) ==
    LET reply == node_getblocklocations(w, blockhashes)
    IN  Out(context(IF reply.ok THEN Ok(reply.val) ELSE Err(<<reply.error.kind>>),
                    "failed to get block locations"),
            <<Event("getblocklocations", blockhashes)>>)

FileReader_open(w, pos) ==
    IF FileName(pos.file_id) \in w.files
    THEN Out(Ok([pos |-> pos]), <<Event("open", pos)>>)
    ELSE Out(bail("failed to open"), <<Event("open", pos)>>)

open_file(w, pos) == FileReader_open(w, pos)

\* Block::consensus_decode from the opened file, at the offset sought.
consensus_decode(w, file) ==
    LET c == w.disk[file.pos]
    IN  IF c.kind = "block" THEN Ok(c.block) ELSE bail("decode")

\* read_block gone wrong: the number of locations is not asserted.
read_block_unasserted(w, blockhash) ==
    LET locations == get_block_locations(w, <<blockhash>>)
    IN  IF ~locations.res.ok THEN locations
        ELSE IF Len(locations.res.val) = 0
             THEN Out(Panic("index out of bounds"), locations.io)
        ELSE LET pos == locations.res.val[1]
                 file == open_file(w, pos)
             IN  IF ~file.res.ok THEN Out(file.res, locations.io \o file.io)
                 ELSE LET block == consensus_decode(w, file.res.val)
                      IN  Out(IF block.ok THEN Ok(<<block.val, pos>>) ELSE block,
                              locations.io \o file.io \o <<Event("decode", pos)>>)

read_block(w, blockhash) ==
    LET locations == get_block_locations(w, <<blockhash>>)
    IN  IF ~locations.res.ok THEN locations
        ELSE IF Len(locations.res.val) # 1
             THEN Out(Panic("assertion failed: locations.len() == 1"), locations.io)
        ELSE LET pos == locations.res.val[1]
                 file == open_file(w, pos)
             IN  IF ~file.res.ok THEN Out(file.res, locations.io \o file.io)
                 ELSE LET block == consensus_decode(w, file.res.val)
                      IN  Out(IF block.ok THEN Ok(<<block.val, pos>>) ELSE block,
                              locations.io \o file.io \o <<Event("decode", pos)>>)

\* The loop's turn gone wrong: the hashes are not compared.
verify_one_skipping_compare(w, blockhash) ==
    LET r == read_block(w, blockhash)
    IN  IF IsPanic(r.res) \/ ~r.res.ok THEN r ELSE Out(Ok("unit"), r.io)

\* One turn of verify_blocks' loop.
verify_one(w, blockhash) ==
    LET r == read_block(w, blockhash)
    IN  IF IsPanic(r.res) \/ ~r.res.ok THEN r
        ELSE IF block_hash(r.res.val[1]) # blockhash
             THEN Out(bail("incorrect block loaded"), r.io)
             ELSE Out(Ok("unit"), r.io)

\* The loop gone wrong: only the first hash is verified.
verify_from_first_only(w, blockhashes, i) ==
    IF i > Len(blockhashes) THEN Out(Ok("unit"), << >>)
    ELSE verify_one(w, blockhashes[i])

RECURSIVE verify_from(_, _, _)
verify_from(w, blockhashes, i) ==
    IF i > Len(blockhashes) THEN Out(Ok("unit"), << >>)
    ELSE LET one == verify_one(w, blockhashes[i])
         IN  IF IsPanic(one.res) \/ ~one.res.ok THEN one
             ELSE LET rest == verify_from(w, blockhashes, i + 1)
                  IN  Out(rest.res, one.io \o rest.io)

verify_blocks(w, blockhashes) == verify_from(w, blockhashes, 1)

\* block.header, and BlockHeader::block_hash: a block's hash is its header's.
block_header(block) == <<"header", block>>

header_block_hash(header) == block_hash(header[2])

\* bitcoin::consensus::serialize(&block): the bytes consensus_decode reads.
serialize(block) == IF block = "B1" THEN <<1, 1>> ELSE <<2, 2, 2>>

\* u32::try_from(usize): every length TLC can hold is below 2^32.
u32_try_from(n) == IF n >= 0 THEN Ok(n) ELSE bail("out of range integral type conversion")

\* What getblockhash(0) answers.
BlockHashReplies ==
    {[ok |-> TRUE, val |-> h] : h \in BlockHashes}
    \cup {[ok |-> FALSE, error |-> e] : e \in RpcErrors}

\* The hash of block 0 is asked of the node, the block is read, and the row
\* is built from the block read and the hash asked for.
get_genesis(w, reply) ==
    LET asked == <<Event("getblockhash", 0)>>
    IN  IF ~reply.ok THEN Out(Err(<<reply.error.kind>>), asked)
        ELSE LET hash == reply.val
                 r == read_block(w, hash)
             IN  IF IsPanic(r.res) \/ ~r.res.ok THEN Out(r.res, asked \o r.io)
                 ELSE LET block == r.res.val[1]
                          pos == r.res.val[2]
                          size == u32_try_from(Len(serialize(block)))
                      IN  IF ~size.ok THEN Out(size, asked \o r.io)
                          ELSE Out(Ok([header |-> block_header(block), hash |-> hash,
                                       pos |-> pos, size |-> size.val]),
                                   asked \o r.io)

\* ------------------------------------------------------------ get_existing

Txids == {"t1", "t2", "t3"}

\* Hex text as the node can send it: two encoded transactions, bytes that
\* decode to no transaction, and text that is not hex.
HexStrings == {<<"0", "1">>, <<"0", "2">>, <<"f", "f">>, <<"z", "z">>}

\* The JSON values of a response's result field.
JsonValues ==
    {[type |-> "null", v |-> << >>]}
    \cup {[type |-> "object", v |-> e] : e \in {<<"e1">>, <<"e2">>}}
    \cup {[type |-> "string", v |-> h] : h \in HexStrings}

\* One slot of send_batch's answer: no response for the request (None), or
\* a response carrying an error or a result.
BatchItems ==
    {[present |-> FALSE, error |-> FALSE, result |-> [type |-> "null", v |-> << >>]],
     [present |-> TRUE, error |-> TRUE, result |-> [type |-> "null", v |-> << >>]]}
    \cup {[present |-> TRUE, error |-> FALSE, result |-> j] : j \in JsonValues}

SeqsOfLen(S, n) == [1 .. n -> S]

\* jsonrpc's Client::send_batch: it refuses an empty batch, and otherwise
\* fails as a whole or answers with one slot per request, in request order.
BatchReplies(n) ==
    IF n = 0 THEN {[ok |-> FALSE, error |-> "EmptyBatch"]}
    ELSE {[ok |-> FALSE, error |-> "Transport"]}
         \cup {[ok |-> TRUE, val |-> r] : r \in SeqsOfLen(BatchItems, n)}

\* serde's Deserialize for the two response types get_existing is used at.
from_json(T, j) ==
    CASE T = "GetMempoolEntryResult" ->
            IF j.type = "object" THEN Ok(j.v) ELSE bail("invalid type")
      [] T = "String" ->
            IF j.type = "string" THEN Ok(j.v) ELSE bail("invalid type")

\* jsonrpc's Response::result::<T>()
response_result(T, response) ==
    IF response.error THEN bail("JsonRpc.Rpc") ELSE from_json(T, response.result)

HexDigit(c) ==
    CASE c = "0" -> 0 [] c = "1" -> 1 [] c = "2" -> 2 [] c = "f" -> 15 [] OTHER -> -1

\* FromHex::from_hex: two hex digits to the byte.
from_hex(hex) ==
    IF Len(hex) % 2 # 0 THEN bail("odd length")
    ELSE IF \E i \in 1 .. Len(hex) : HexDigit(hex[i]) < 0 THEN bail("invalid hex character")
    ELSE Ok([i \in 1 .. Len(hex) \div 2 |-> 16 * HexDigit(hex[2 * i - 1]) + HexDigit(hex[2 * i])])

\* bitcoin::consensus::encode::deserialize::<Transaction>
deserialize_tx(bytes) ==
    IF bytes = <<1>> THEN Ok("txA")
    ELSE IF bytes = <<2>> THEN Ok("txB")
    ELSE bail("decode")

tx_from_hex(hex) ==
    LET bytes == from_hex(hex)
    IN  IF ~bytes.ok THEN bytes ELSE deserialize_tx(bytes.val)

\* The values a response can parse into, and the two transforms as functions.
Parsed == {j.v : j \in JsonValues}

map_entry == [entry \in Parsed |-> Ok(entry)]

map_tx_from_hex == [hex \in Parsed |-> tx_from_hex(hex)]

\* client.build_request(command, args) for every identifier, in order.
build_requests(command, txids) ==
    [i \in 1 .. Len(txids) |-> [method |-> command, params |-> <<txids[i]>>]]

Min(a, b) == IF a < b THEN a ELSE b

zip(xs, ys) == [i \in 1 .. Min(Len(xs), Len(ys)) |-> <<xs[i], ys[i]>>]

\* collect() into a HashMap: a later pair replaces an earlier one with its key.
RECURSIVE collect_map(_)
collect_map(pairs) ==
    IF pairs = << >> THEN << >>
    ELSE LET init == collect_map(SubSeq(pairs, 1, Len(pairs) - 1))
             last == pairs[Len(pairs)]
         IN  [k \in DOMAIN init \cup {last[1]} |-> IF k = last[1] THEN last[2] ELSE init[k]]

\* An empty HashMap.
EmptyMap == << >>

\* The pairing gone wrong: responses meet the identifiers in reverse order.
collect_existing_shifted(responses, txids, T, map_fn) ==
    LET n == Len(responses)
        kept(i) ==
            /\ responses[i].present
            /\ response_result(T, responses[i]).ok
            /\ map_fn[response_result(T, responses[i]).val].ok
        pair(i) == <<txids[n + 1 - i], map_fn[response_result(T, responses[i]).val].val>>
        RECURSIVE go(_)
        go(i) == IF i > n THEN << >>
                 ELSE (IF kept(i) THEN <<pair(i)>> ELSE << >>) \o go(i + 1)
    IN  collect_map(go(1))

\* The zip and the two filter_maps over the responses, collected.
collect_existing(responses, txids, T, map_fn) ==
    LET zipped == zip(responses, txids)
        \* drop missing entries
        present == SelectSeq(zipped, LAMBDA p : p[1].present)
        \* drop failed responses
        step(p) ==
            LET parsed == response_result(T, p[1])
            IN  IF ~parsed.ok THEN << >>
                ELSE LET r == map_fn[parsed.val]
                     IN  IF r.ok THEN <<(<<p[2], r.val>>)>> ELSE << >>
        RECURSIVE go(_)
        go(i) == IF i > Len(present) THEN << >> ELSE step(present[i]) \o go(i + 1)
    IN  collect_map(go(1))

\* get_existing gone wrong: an empty input is sent as an empty batch.
get_existing_always_sending(command, txids, T, map_fn, reply) ==
    LET requests == build_requests(command, txids)
    IN  IF ~reply.ok THEN Out(context(Err(<<reply.error>>), command), <<requests>>)
        ELSE Out(Ok(collect_existing(reply.val, txids, T, map_fn)), <<requests>>)

\* get_existing gone wrong: a failed batch yields an empty mapping.
get_existing_swallowing_failure(command, txids, T, map_fn, reply) ==
    IF txids = << >> THEN Out(Ok(EmptyMap), << >>)
    ELSE LET requests == build_requests(command, txids)
         IN  IF ~reply.ok THEN Out(Ok(EmptyMap), <<requests>>)
             ELSE Out(Ok(collect_existing(reply.val, txids, T, map_fn)), <<requests>>)

\* get_existing, with the batch it sent; reply is what send_batch answers
\* when the batch is sent.
get_existing(command, txids, T, map_fn, reply) ==
    IF txids = << >> THEN Out(Ok(EmptyMap), << >>)
    ELSE LET requests == build_requests(command, txids)
         IN  IF ~reply.ok
             THEN Out(context(Err(<<reply.error>>), command), <<requests>>)
             ELSE Out(Ok(collect_existing(reply.val, txids, T, map_fn)), <<requests>>)

get_existing_mempool_entries(txids, reply) ==
    get_existing("getmempoolentry", txids, "GetMempoolEntryResult", map_entry, reply)

get_existing_transactions(txids, reply) ==
    get_existing("getrawtransaction", txids, "String", map_tx_from_hex, reply)

\* ------------------------------------------- header sync and the peer-wire lock

\* The lists of new block hashes the peer-wire handle answers with.
NewHeaderLists == {<< >>, <<"h1">>, <<"h1", "h2">>, <<"h2", "h1">>}

\* Connection::get_new_headers(chain): the new hashes, or an error.
Connection_get_new_headers(answer) ==
    IF answer.failed THEN bail("peer-wire get_new_headers failed") ELSE Ok(answer.blockhashes)

NewHeaderAnswers ==
    {[failed |-> FALSE, blockhashes |-> hs] : hs \in NewHeaderLists}
    \cup {[failed |-> TRUE, blockhashes |-> << >>]}

\* Connection::new_block_notification(): the receiving end of a channel.
Connection_new_block_notification == [receiver |-> "new_block"]

\* The Mutex is held by a thread, or by none.
Unlocked == 0

\* Mutex::lock gone wrong: it returns whoever holds the Mutex.
can_lock_always(lock) == TRUE

\* parking_lot's Mutex::lock returns once no thread holds the Mutex.

can_lock(lock) == lock = Unlocked

\* BlockHashPosition::new
BlockHashPosition(hash, pos) == [hash |-> hash, pos |-> pos]

\* The pairing gone wrong: the counts are not compared, zip truncates.
pair_headers_truncating(blockhashes, positions) ==
    Ok([i \in DOMAIN zip(blockhashes, positions) |->
            BlockHashPosition(blockhashes[i], positions[i])])

\* assert_eq!(blockhashes.len(), positions.len()) and the zip that follows.
pair_headers(blockhashes, positions) ==
    IF Len(blockhashes) # Len(positions)
    THEN Panic("assertion failed: blockhashes.len() == positions.len()")
    ELSE LET pairs == zip(blockhashes, positions)
         IN  Ok([i \in DOMAIN pairs |-> BlockHashPosition(pairs[i][1], pairs[i][2])])

\* The first statement gone wrong: the guard is bound to a variable and
\* lives until get_new_headers returns.
gnh_after_p2p_holding(r, t) ==
    IF r.ok THEN [pc |-> "gnh_locations", blockhashes |-> r.val, lock |-> t, returned |-> FALSE]
    ELSE [pc |-> "idle", blockhashes |-> << >>, lock |-> Unlocked, returned |-> TRUE]

\* The first statement gone wrong: the early return leaves the Mutex held.
gnh_after_p2p_leaking(r, t) ==
    IF r.ok THEN [pc |-> "gnh_locations", blockhashes |-> r.val, lock |-> Unlocked, returned |-> FALSE]
    ELSE [pc |-> "idle", blockhashes |-> << >>, lock |-> t, returned |-> TRUE]

\* let blockhashes = self.p2p.lock().get_new_headers(chain)?; the guard is
\* a temporary of the statement: it is dropped when the statement ends, by
\* the early return of ? as well.
gnh_after_p2p(r, t) ==
    IF r.ok THEN [pc |-> "gnh_locations", blockhashes |-> r.val, lock |-> Unlocked, returned |-> FALSE]
    ELSE [pc |-> "idle", blockhashes |-> << >>, lock |-> Unlocked, returned |-> TRUE]

\* What follows the first statement of get_new_headers: the lookup, the
\* assertion and the pairing.
gnh_locations(w, blockhashes) ==
    LET positions == get_block_locations(w, blockhashes)
    IN  IF ~positions.res.ok THEN positions
        ELSE Out(pair_headers(blockhashes, positions.res.val), positions.io)

\* The operations that use the RPC client and the File Reader only, each
\* with the context it puts on a failure.
RpcContext ==
    [estimate_fee |-> "failed to estimate fee",
     get_relay_fee |-> "failed to get relay fee",
     broadcast |-> "failed to broadcast transaction",
     get_transaction_info |-> "failed to get transaction info",
     get_transaction |-> "failed to get transaction",
     get_block_txids |-> "failed to get block txids",
     get_mempool_txids |-> "failed to get mempool txids"]

RpcOnlyOps ==
    DOMAIN RpcContext
    \cup {"get_existing_transactions", "get_existing_mempool_entries", "verify_blocks"}

\* One call of an RPC-only operation against a node that answers or fails.
rpc_only(op, node_fails) ==
    LET present == [present |-> TRUE, error |-> FALSE,
                    result |-> [type |-> "string", v |-> <<"0", "1">>]]
        batch_reply == IF node_fails THEN [ok |-> FALSE, error |-> "Transport"]
                       ELSE [ok |-> TRUE, val |-> <<present>>]
        origin == [file_id |-> 0, offset |-> 0]
        w == World(~node_fails, [h \in BlockHashes |-> origin], 0, {FileName(0)},
                   [p \in FilePositions |-> [kind |-> "block", block |-> "B1"]])
    IN  CASE op = "get_existing_transactions" ->
                get_existing_transactions(<<"t1">>, batch_reply).res
          [] op = "get_existing_mempool_entries" ->
                get_existing_mempool_entries(<<"t1">>, batch_reply).res
          [] op = "verify_blocks" -> verify_blocks(w, <<"h1">>).res
          [] OTHER ->
                context(IF node_fails THEN Err(<<"JsonRpc.Transport">>) ELSE Ok("reply"),
                        RpcContext[op])

\* ------------------------------------------------------------------ state

VARIABLES
    pc,               \* where Daemon::connect is
    exit_flag,        \* the ExitFlag: set by a signal, never cleared
    node_settled,     \* the node has caught up for good: it answers fully synced from now on
    overflow_checks,  \* the build panics on integer overflow (debug) or wraps (release)
    rpc,              \* the RPC client rpc_connect built
    info,             \* the blockchain info fetched after the loop
    result,           \* what Daemon::connect returned
    polls,            \* status polls issued
    trace,            \* the calls connect made, in order, each with what it met
    batch,            \* the last get_existing call: its input, the wire, its result
    call,             \* the last call of another operation: its input, its I/O, its result
    threads,          \* the threads sharing the Daemon: where each one is, and its locals
    p2p_lock          \* the Mutex around the peer-wire Connection: its holder, or Unlocked

vars == <<pc, exit_flag, node_settled, overflow_checks, rpc, info, result, polls, trace, batch, call, threads, p2p_lock>>

connect_vars == <<pc, exit_flag, node_settled, overflow_checks, rpc, info, result, polls, trace>>

daemon_vars == <<call, threads, p2p_lock>>

NoValue == [none |-> TRUE]

NoBatch == [command |-> "none", txids |-> << >>, reply |-> NoValue, sent |-> << >>, result |-> NoValue]

NoCall == [op |-> "none"]

\* The threads that share the one Daemon.
Threads == 1 .. MaxThreads

Idle == [pc |-> "idle", blockhashes |-> << >>]

\* The kinds of answer a status poll can meet.
Synced(reply) ==
    reply.ok /\ ~reply.initial_block_download /\ reply.headers = reply.blocks

Syncing(reply) ==
    reply.ok /\ (reply.initial_block_download \/ reply.headers > reply.blocks)

Warmup(reply) ==
    ~reply.ok /\ reply.error.kind = "JsonRpc.Rpc" /\ reply.error.code = RPC_IN_WARMUP

PollClass(reply) ==
    IF Synced(reply) THEN "synced"
    ELSE IF Syncing(reply) THEN "syncing"
    ELSE IF reply.ok THEN "behind"
    ELSE IF Warmup(reply) THEN "warmup"
    ELSE "fatal"

Init ==
    /\ pc = "rpc_connect"
    /\ exit_flag = FALSE
    /\ node_settled = FALSE
    /\ overflow_checks \in BOOLEAN
    /\ rpc = NoValue
    /\ info = NoValue
    /\ result = NoValue
    /\ polls = 0
    /\ trace = << >>
    /\ batch = NoBatch
    /\ call = NoCall
    /\ threads = [t \in Threads |-> Idle]
    /\ p2p_lock = Unlocked

\* The history variables polls and trace are kept for the first MaxPolls
\* status polls; a run that polls more often goes on unrecorded.
InHorizon == polls <= MaxPolls

Record(events) == trace' = IF InHorizon THEN trace \o events ELSE trace

Return(r) == pc' = "returned" /\ result' = r

\* ---------------------------------------------------------- the environment

\* A signal sets the exit flag.
SetExitFlag ==
    /\ ~exit_flag
    /\ exit_flag' = TRUE
    /\ UNCHANGED <<pc, node_settled, overflow_checks, rpc, info, result, polls, trace, batch, daemon_vars>>

\* The node finishes its initial sync and warm-up for good.
NodeSettles ==
    /\ ~node_settled
    /\ node_settled' = TRUE
    /\ UNCHANGED <<pc, exit_flag, overflow_checks, rpc, info, result, polls, trace, batch, daemon_vars>>

\* ---------------------------------------------------------- Daemon::connect

\* let mut rpc = rpc_connect(config)?;
Connect_rpc_connect ==
    /\ pc = "rpc_connect"
    /\ \E auth \in AuthConfigs :
          LET r == rpc_connect(auth)
          IN  IF r.ok
              THEN rpc' = r.val /\ pc' = "exit_flag_poll" /\ UNCHANGED result
              ELSE Return(r) /\ UNCHANGED rpc
    /\ UNCHANGED <<exit_flag, node_settled, overflow_checks, info, polls, trace, batch, daemon_vars>>

\* The loop head gone wrong: the exit flag is not looked at.
connect_check_exit_unchecked(flag) == Ok("unit")

\* exit_flag.poll().context("bitcoin RPC polling interrupted")?
connect_check_exit(flag) ==
    context(exit_flag_poll(flag), "bitcoin RPC polling interrupted")

Connect_exit_flag_poll ==
    /\ pc = "exit_flag_poll"
    /\ LET r == connect_check_exit(exit_flag)
       IN  IF r.ok THEN pc' = "rpc_poll" /\ UNCHANGED result ELSE Return(r)
    /\ Record(<<Event("exit_flag.poll", IF exit_flag THEN "set" ELSE "clear")>>)
    /\ UNCHANGED <<exit_flag, node_settled, overflow_checks, rpc, info, polls, batch, daemon_vars>>

\* The match gone wrong: the loop gives up at the second retry.
connect_on_poll_give_up(p) ==
    CASE p.tag = "Panic" -> [pc |-> "panicked", result |-> p]
      [] p.tag = "Retry" ->
            IF polls >= 1
            THEN [pc |-> "returned", result |-> bail("bitcoind RPC polling failed")]
            ELSE [pc |-> "sleep", result |-> NoValue]
      [] p.tag = "Done" ->
            IF p.result.ok
            THEN [pc |-> "get_network_info", result |-> NoValue]
            ELSE [pc |-> "returned",
                  result |-> context(p.result, "bitcoind RPC polling failed")]

\* The match on rpc_poll's result: where connect goes next.
connect_on_poll(p) ==
    CASE p.tag = "Panic" -> [pc |-> "panicked", result |-> p]
      [] p.tag = "Retry" -> [pc |-> "sleep", result |-> NoValue]
      [] p.tag = "Done" ->
            IF p.result.ok
            THEN [pc |-> "get_network_info", result |-> NoValue]
            ELSE [pc |-> "returned",
                  result |-> context(p.result, "bitcoind RPC polling failed")]

\* The replies the node can give to a status poll now.
StatusRepliesNow == IF node_settled THEN {r \in StatusReplies : Synced(r)} ELSE StatusReplies

Connect_rpc_poll ==
    /\ pc = "rpc_poll"
    /\ \E reply \in StatusRepliesNow :
          LET next == connect_on_poll(rpc_poll(reply, overflow_checks))
          IN  /\ pc' = next.pc
              /\ result' = next.result
              /\ trace' = IF polls < MaxPolls
                          THEN Append(trace, Event("rpc_poll", PollClass(reply)))
                          ELSE trace
    /\ polls' = IF InHorizon THEN polls + 1 ELSE polls
    /\ UNCHANGED <<exit_flag, node_settled, overflow_checks, rpc, info, batch, daemon_vars>>

\* std::thread::sleep(Duration::from_secs(1))
Connect_sleep ==
    /\ pc = "sleep"
    /\ pc' = "exit_flag_poll"
    /\ Record(<<Event("sleep", SLEEP_SECS)>>)
    /\ UNCHANGED <<exit_flag, node_settled, overflow_checks, rpc, info, result, polls, batch, daemon_vars>>

\* What getnetworkinfo answers: the fields connect reads, or an error.
Versions == {MIN_VERSION - 1, MIN_VERSION, MIN_VERSION + 1}

NetworkInfoReplies ==
    {[ok |-> TRUE, version |-> v, network_active |-> a] : v \in Versions, a \in BOOLEAN}
    \cup {[ok |-> FALSE, error |-> e] : e \in RpcErrors}

\* What getblockchaininfo answers after the loop.
BlockchainInfoReplies ==
    {[ok |-> TRUE, pruned |-> p, best_block_hash |-> h] : p \in BOOLEAN, h \in BlockHashes}
    \cup {[ok |-> FALSE, error |-> e] : e \in RpcErrors}

\* The checks gone wrong: the version is not compared.
check_network_info_no_version(reply) ==
    IF ~reply.ok THEN Err(<<reply.error.kind>>)
    ELSE IF ~reply.network_active THEN bail("electrs requires active bitcoind p2p network")
    ELSE Ok("unit")

\* let network_info = rpc.get_network_info()?; and the two checks on it.
check_network_info(reply) ==
    IF ~reply.ok THEN Err(<<reply.error.kind>>)
    ELSE IF reply.version < MIN_VERSION THEN bail("electrs requires bitcoind 0.21+")
    ELSE IF ~reply.network_active THEN bail("electrs requires active bitcoind p2p network")
    ELSE Ok("unit")

Connect_get_network_info ==
    /\ pc = "get_network_info"
    /\ \E reply \in NetworkInfoReplies :
          LET r == check_network_info(reply)
          IN  /\ IF r.ok THEN pc' = "get_blockchain_info" /\ UNCHANGED result ELSE Return(r)
              /\ Record(<<Event("getnetworkinfo", reply)>>)
    /\ UNCHANGED <<exit_flag, node_settled, overflow_checks, rpc, info, polls, batch, daemon_vars>>

\* let info = rpc.get_blockchain_info()?; and the check on it.
check_blockchain_info(reply) ==
    IF ~reply.ok THEN Err(<<reply.error.kind>>)
    ELSE IF reply.pruned THEN bail("electrs requires non-pruned bitcoind node")
    ELSE Ok(reply)

Connect_get_blockchain_info ==
    /\ pc = "get_blockchain_info"
    /\ \E reply \in BlockchainInfoReplies :
          LET r == check_blockchain_info(reply)
          IN  /\ IF r.ok
                 THEN info' = r.val /\ pc' = "p2p_connect" /\ UNCHANGED result
                 ELSE Return(r) /\ UNCHANGED info
              /\ Record(<<Event("getblockchaininfo", reply)>>)
    /\ UNCHANGED <<exit_flag, node_settled, overflow_checks, rpc, polls, batch, daemon_vars>>

\* Connection::connect(config.network, config.daemon_p2p_addr, metrics)
Connection_connect(reachable) ==
    IF reachable THEN Ok([conn |-> "peer"]) ELSE bail("failed to connect to peer")

\* let p2p = Mutex::new(Connection::connect(..)?);
Connect_p2p_connect ==
    /\ pc = "p2p_connect"
    /\ \E reachable \in BOOLEAN :
          LET r == Connection_connect(reachable)
          IN  /\ IF r.ok THEN pc' = "verify_blocks" /\ UNCHANGED result ELSE Return(r)
              /\ Record(<<Event("p2p.connect", reachable)>>)
    /\ UNCHANGED <<exit_flag, node_settled, overflow_checks, rpc, info, polls, batch, daemon_vars>>

AllFileNames == {FileName(i) : i \in FileIds}

\* The node and its blocks directory as the one read of connect can meet
\* them: the lookup fails or miscounts, or it names a position whose file
\* is missing or holds some contents.
ConnectWorlds ==
    LET at(pos) == [h \in BlockHashes |-> pos]
        holds(c) == [p \in FilePositions |-> c]
        origin == [file_id |-> 0, offset |-> 0]
        garbage == [kind |-> "garbage", block |-> "none"]
    IN  {World(FALSE, at(origin), 0, {}, holds(garbage))}
        \cup {World(TRUE, at(origin), k, {}, holds(garbage)) : k \in {-1, 1}}
        \cup {World(TRUE, at(pos), 0, {}, holds(garbage)) : pos \in FilePositions}
        \cup {World(TRUE, at(pos), 0, AllFileNames, holds(c)) :
                pos \in FilePositions, c \in DiskContents}

\* daemon.verify_blocks(&[info.best_block_hash])?
connect_finish(w, hash) == verify_blocks(w, <<hash>>)

\* The reader and the daemon are built, the best block is verified and the
\* daemon is returned.
Connect_verify_blocks ==
    /\ pc = "verify_blocks"
    /\ \E w \in ConnectWorlds :
          LET v == connect_finish(w, info.best_block_hash)
          IN  /\ Record(v.io \o <<Event("world", w)>>)
              /\ IF IsPanic(v.res) THEN pc' = "panicked" /\ result' = v.res
                 ELSE IF v.res.ok
                      THEN Return(Ok([p2p |-> "Mutex(Connection)", rpc |-> rpc,
                                      reader |-> "blocks_dir"]))
                      ELSE Return(v.res)
    /\ UNCHANGED <<exit_flag, node_settled, overflow_checks, rpc, info, polls, batch, daemon_vars>>

ConnectStep ==
    \/ Connect_rpc_connect
    \/ Connect_exit_flag_poll
    \/ Connect_rpc_poll
    \/ Connect_sleep
    \/ Connect_get_network_info
    \/ Connect_get_blockchain_info
    \/ Connect_p2p_connect
    \/ Connect_verify_blocks

Next == SetExitFlag \/ NodeSettles \/ ConnectStep

Spec == Init /\ [][Next]_vars

\* A running thread keeps running: every call of connect returns (the RPC
\* transport has a timeout) and the sleep ends.
SpecLive == Spec /\ WF_vars(ConnectStep)

\* ------------------------------------------------ the batched lookups

TxidSeqs == UNION {SeqsOfLen(Txids, n) : n \in 0 .. MaxTxids}

BatchCall(command, txids, reply, out) ==
    [command |-> command, txids |-> txids, reply |-> reply, sent |-> out.io,
     result |-> out.res]

\* One call of get_existing_mempool_entries, from its input to its result.
Get_existing_mempool_entries ==
    /\ batch = NoBatch
    /\ \E txids \in TxidSeqs :
          \E reply \in BatchReplies(Len(txids)) :
              batch' = BatchCall("getmempoolentry", txids, reply,
                                 get_existing_mempool_entries(txids, reply))
    /\ UNCHANGED <<connect_vars, daemon_vars>>

\* One call of get_existing_transactions.
Get_existing_transactions ==
    /\ batch = NoBatch
    /\ \E txids \in TxidSeqs :
          \E reply \in BatchReplies(Len(txids)) :
              batch' = BatchCall("getrawtransaction", txids, reply,
                                 get_existing_transactions(txids, reply))
    /\ UNCHANGED <<connect_vars, daemon_vars>>

\* The caller takes the result; the daemon is ready for the next call.
BatchReturned ==
    /\ batch # NoBatch
    /\ batch' = NoBatch
    /\ UNCHANGED <<connect_vars, daemon_vars>>

NextBatch == Get_existing_mempool_entries \/ Get_existing_transactions \/ BatchReturned

SpecBatch == Init /\ [][NextBatch]_vars

\* ------------------------------------------------------- the block reads

\* The node and its blocks directory as a read of several blocks can meet
\* them: the lookup fails or miscounts, or it names a position for each
\* hash, whose file is there or not and which holds some contents.
BlockWorlds ==
    LET at(pos) == [h \in BlockHashes |-> pos]
        holds(c) == [p \in FilePositions |-> c]
        origin == [file_id |-> 0, offset |-> 0]
        garbage == [kind |-> "garbage", block |-> "none"]
        genesis == [kind |-> "block", block |-> "B1"]
        diskOf(locOf, c) ==
            [p \in FilePositions |->
                IF p = locOf["h1"] THEN c["h1"]
                ELSE IF p = locOf["h2"] THEN c["h2"] ELSE garbage]
    IN  {World(FALSE, at(origin), 0, {}, holds(garbage))}
        \cup {World(TRUE, at(origin), k, AllFileNames, holds(genesis)) : k \in {-1, 1}}
        \cup {World(TRUE, locOf, 0, files, diskOf(locOf, c)) :
                locOf \in [BlockHashes -> FilePositions],
                files \in SUBSET AllFileNames,
                c \in [BlockHashes -> DiskContents]}

HashSeqs == UNION {SeqsOfLen(BlockHashes, n) : n \in 0 .. MaxHashes}

\* One call of verify_blocks, from its input to its result.
Verify_blocks ==
    /\ call.op = "none"
    /\ \E w \in BlockWorlds, blockhashes \in HashSeqs :
          LET v == verify_blocks(w, blockhashes)
          IN  call' = [op |-> "verify_blocks", world |-> w, arg |-> blockhashes,
                       io |-> v.io, out |-> v.res]
    /\ UNCHANGED <<connect_vars, batch, threads, p2p_lock>>

\* One call of get_genesis.
Get_genesis ==
    /\ call.op = "none"
    /\ \E w \in BlockWorlds, reply \in BlockHashReplies :
          LET g == get_genesis(w, reply)
          IN  call' = [op |-> "get_genesis", world |-> w, arg |-> reply,
                       io |-> g.io, out |-> g.res]
    /\ UNCHANGED <<connect_vars, batch, threads, p2p_lock>>

\* The caller takes the result, or the panic unwinds; the daemon is there
\* for the next call.
CallReturned ==
    /\ call.op # "none"
    /\ call' = NoCall
    /\ UNCHANGED <<connect_vars, batch, threads, p2p_lock>>

NextBlocks == Verify_blocks \/ Get_genesis \/ CallReturned

SpecBlocks == Init /\ [][NextBlocks]_vars

\* ------------------------------------------------------- the status poll

\* The largest u64, at the width the model gives the type.
U64_MAX == U64_MODULUS - 1

\* Header and block counts: small ones and the largest two.
PollCounts == (0 .. MaxPollCount) \cup {U64_MAX - 1, U64_MAX}

PollReplies ==
    {[ok |-> TRUE, initial_block_download |-> d, headers |-> h, blocks |-> b] :
        d \in BOOLEAN, h \in PollCounts, b \in PollCounts}
    \cup {[ok |-> FALSE, error |-> e] : e \in RpcErrors}

\* One call of rpc_poll, from the node's answer to the PollResult.
Rpc_poll ==
    /\ call.op = "none"
    /\ \E reply \in PollReplies :
          call' = [op |-> "rpc_poll", arg |-> reply, out |-> rpc_poll(reply, overflow_checks)]
    /\ UNCHANGED <<connect_vars, batch, threads, p2p_lock>>

NextPoll == Rpc_poll \/ CallReturned

SpecPoll == Init /\ [][NextPoll]_vars

\* ------------------------------------------------------- the cookie file

CookieChars == {"u", "p", ":"}

\* The cookie files read_cookie can meet: none, one that is not text, and
\* one with any short contents.
CookieFiles ==
    {CookieFile(FALSE, FALSE, << >>), CookieFile(TRUE, FALSE, << >>)}
    \cup {CookieFile(TRUE, TRUE, c) :
            c \in UNION {SeqsOfLen(CookieChars, n) : n \in 0 .. MaxCookieLen}}

\* One call of read_cookie, from the file to the credential pair.
Read_cookie ==
    /\ call.op = "none"
    /\ \E file \in CookieFiles :
          call' = [op |-> "read_cookie", arg |-> file, out |-> read_cookie(file)]
    /\ UNCHANGED <<connect_vars, batch, threads, p2p_lock>>

NextCookie == Read_cookie \/ CallReturned

SpecCookie == Init /\ [][NextCookie]_vars

\* --------------------------------------- the threads sharing the Daemon

\* The node as the lookup of a header sync can meet it: it fails, or it
\* answers with a position for each hash, one too few or one too many.
SyncWorlds ==
    LET locOf == [h \in BlockHashes |->
                    IF h = "h1" THEN [file_id |-> 0, offset |-> 0]
                    ELSE [file_id |-> 1, offset |-> 0]]
        garbage == [p \in FilePositions |-> [kind |-> "garbage", block |-> "none"]]
    IN  {World(FALSE, locOf, 0, {}, garbage)}
        \cup {World(TRUE, locOf, k, {}, garbage) : k \in {-1, 0, 1}}

At(t, where, blockhashes) ==
    threads' = [threads EXCEPT ![t] = [pc |-> where, blockhashes |-> blockhashes]]

InHandle == {"gnh_p2p", "nbn_p2p"}

\* A thread calls get_new_headers: it is at self.p2p.lock().
Call_get_new_headers(t) ==
    /\ threads[t].pc = "idle"
    /\ At(t, "gnh_lock", << >>)
    /\ UNCHANGED <<connect_vars, batch, call, p2p_lock>>

\* lock() returns: the thread holds the Mutex and enters the handle.
Gnh_lock(t) ==
    /\ threads[t].pc = "gnh_lock"
    /\ can_lock(p2p_lock)
    /\ p2p_lock' = t
    /\ At(t, "gnh_p2p", << >>)
    /\ UNCHANGED <<connect_vars, batch, call>>

\* The handle's get_new_headers returns and the statement ends.
Gnh_p2p(t) ==
    /\ threads[t].pc = "gnh_p2p"
    /\ \E answer \in NewHeaderAnswers :
          LET r == Connection_get_new_headers(answer)
              next == gnh_after_p2p(r, t)
          IN  /\ At(t, next.pc, next.blockhashes)
              /\ p2p_lock' = next.lock
              /\ call' = IF next.returned
                         THEN [op |-> "get_new_headers", p2p |-> answer,
                               world |-> NoValue,
                               io |-> <<Event("p2p.get_new_headers", "chain")>>,
                               out |-> r]
                         ELSE call
    /\ UNCHANGED <<connect_vars, batch>>

\* The lookup of the positions, the assertion and the pairing; the call
\* returns, or the thread panics.
Gnh_locations(t) ==
    /\ threads[t].pc = "gnh_locations"
    /\ \E w \in SyncWorlds :
          LET g == gnh_locations(w, threads[t].blockhashes)
          IN  /\ call' = [op |-> "get_new_headers",
                          p2p |-> [failed |-> FALSE, blockhashes |-> threads[t].blockhashes],
                          world |-> w,
                          io |-> <<Event("p2p.get_new_headers", "chain")>> \o g.io,
                          out |-> g.res]
              /\ At(t, IF IsPanic(g.res) THEN "panicked" ELSE "idle", << >>)
    /\ UNCHANGED <<connect_vars, batch, p2p_lock>>

\* A thread calls new_block_notification: it is at self.p2p.lock().
Call_new_block_notification(t) ==
    /\ threads[t].pc = "idle"
    /\ At(t, "nbn_lock", << >>)
    /\ UNCHANGED <<connect_vars, batch, call, p2p_lock>>

Nbn_lock(t) ==
    /\ threads[t].pc = "nbn_lock"
    /\ can_lock(p2p_lock)
    /\ p2p_lock' = t
    /\ At(t, "nbn_p2p", << >>)
    /\ UNCHANGED <<connect_vars, batch, call>>

\* The handle hands out the receiver; the guard is dropped as the function
\* returns, and the caller waits on the receiver.
Nbn_p2p(t) ==
    /\ threads[t].pc = "nbn_p2p"
    /\ p2p_lock' = Unlocked
    /\ call' = [op |-> "new_block_notification", p2p |-> NoValue, world |-> NoValue,
                io |-> <<Event("p2p.new_block_notification", "unit")>>,
                out |-> Ok(Connection_new_block_notification)]
    /\ At(t, "recv_wait", << >>)
    /\ UNCHANGED <<connect_vars, batch>>

\* The caller's wait on the receiver ends.
Recv(t) ==
    /\ threads[t].pc = "recv_wait"
    /\ At(t, "idle", << >>)
    /\ UNCHANGED <<connect_vars, batch, call, p2p_lock>>

\* A thread calls one RPC-only operation, which returns.
Rpc_only_call(t, op, node_fails) ==
    /\ threads[t].pc = "idle"
    /\ call' = [op |-> op, p2p |-> NoValue, world |-> NoValue,
                io |-> <<Event("lock_seen", p2p_lock)>>,
                out |-> rpc_only(op, node_fails)]
    /\ UNCHANGED <<connect_vars, batch, threads, p2p_lock>>

Rpc_only(t) ==
    \E op \in RpcOnlyOps, node_fails \in BOOLEAN : Rpc_only_call(t, op, node_fails)

ThreadStep(t) ==
    \/ Call_get_new_headers(t)
    \/ Gnh_lock(t)
    \/ Gnh_p2p(t)
    \/ Gnh_locations(t)
    \/ Call_new_block_notification(t)
    \/ Nbn_lock(t)
    \/ Nbn_p2p(t)
    \/ Recv(t)
    \/ Rpc_only(t)

NextSync == \E t \in Threads : ThreadStep(t)

SpecSync == Init /\ [][NextSync]_vars

\* ------------------------------------------------- properties of connect

LoopPcs == {"exit_flag_poll", "rpc_poll", "sleep"}

\* rpc_connect succeeded: the bootstrap loop was entered.
LoopEntered == rpc # NoValue

IsPoll(e) == e.ev = "rpc_poll"

IsPollOrSleep(e) == e.ev \in {"rpc_poll", "sleep"}

\* What the status polls met, in order.
PollInputs ==
    LET ps == SelectSeq(trace, IsPoll)
    IN  [i \in 1 .. Len(ps) |-> ps[i].arg]

\* The polls and the sleeps, in order.
LoopIO == SelectSeq(trace, IsPollOrSleep)

Retryable(class) == class \in {"syncing", "warmup"}

\* Polls and sleeps alternate, a poll first, and every sleep lasts a second.
Alternating(io) ==
    \A j \in 1 .. Len(io) :
        IF j % 2 = 1 THEN io[j].ev = "rpc_poll" ELSE io[j].ev = "sleep" /\ io[j].arg = 1

Called(ev) == \E i \in 1 .. Len(trace) : trace[i].ev = ev

\* The loop was left by its break: connect is at, or past, getnetworkinfo.
LeftLoopOk == pc = "get_network_info" \/ Called("getnetworkinfo")

Interrupted ==
    /\ pc = "returned"
    /\ ~result.ok
    /\ result.err = <<"bitcoin RPC polling interrupted", "exiting due to signal">>

\* C1: with the exit flag never set, after k retryable poll results (a
\* success in initial block download or with headers > blocks, or an RPC
\* error -28) the loop has issued k polls and k-1 or k one-second sleeps,
\* alternating, and is still looping; after k retryable results and one
\* fully synced success it has issued exactly k+1 polls and k sleeps, each
\* sleep between two polls, and has left the loop for the compatibility
\* checks.
C1_RetriesThenCompletes ==
    (InHorizon /\ LoopEntered /\ ~exit_flag) =>
        LET ins == PollInputs
            n == Len(ins)
        IN  /\ (\A i \in 1 .. n : Retryable(ins[i])) =>
                  /\ pc \in LoopPcs
                  /\ Alternating(LoopIO)
                  /\ Len(LoopIO) \in {2 * n - 1, 2 * n}
                  /\ pc = "rpc_poll" => Len(LoopIO) = 2 * n
            /\ (n >= 1 /\ (\A i \in 1 .. n - 1 : Retryable(ins[i])) /\ ins[n] = "synced") =>
                  /\ Alternating(LoopIO)
                  /\ Len(LoopIO) = 2 * n - 1
                  /\ LeftLoopOk

\* C2: while every status poll so far failed with RPC error -28, connect is
\* still in the loop or has returned; it has returned only with the exit
\* flag set, and then with the interruption error, not with an RPC or
\* "daemon not available" error.
C2_WarmupRetriedUntilCancelled ==
    (InHorizon /\ LoopEntered /\ \A i \in 1 .. Len(PollInputs) : PollInputs[i] = "warmup") =>
        /\ pc \in LoopPcs \cup {"returned"}
        /\ pc = "returned" =>
              /\ exit_flag
              /\ Interrupted
              /\ "daemon not available" \notin Range(result.err)
              /\ "bitcoind RPC polling failed" \notin Range(result.err)

C2_Witness ==
    /\ Interrupted
    /\ Len(PollInputs) = MaxPolls
    /\ \A i \in 1 .. Len(PollInputs) : PollInputs[i] = "warmup"

\* The loop was ended by a status poll: connect returned the poll's fatal
\* error, or the polling thread panicked on headers - blocks.
PollFailed ==
    pc = "returned" /\ ~result.ok /\ result.err[1] = "bitcoind RPC polling failed"

PollPanicked == pc = "panicked" /\ result.msg = "attempt to subtract with overflow"

\* C3 as claimed: under weak fairness of connect's steps, if the exit flag
\* is never set and the node from some point on always answers the status
\* poll fully synced, the loop eventually terminates successfully.
C3_Claimed ==
    (<>LoopEntered /\ <>[]node_settled /\ []~exit_flag) => <>(pc = "get_network_info")

\* C3, amended: under the same conditions the loop eventually ends: by its
\* break, unless a poll before that point ended it with a fatal error or a
\* panic.
C3_EventuallyEnds ==
    (<>LoopEntered /\ <>[]node_settled /\ []~exit_flag) =>
        <>(pc = "get_network_info" \/ PollFailed \/ PollPanicked)

C3_Witness ==
    /\ pc = "get_network_info"
    /\ node_settled
    /\ ~exit_flag
    /\ Len(PollInputs) >= 2
    /\ PollInputs[Len(PollInputs)] = "synced"

\* C4: every status poll directly follows a check of the exit flag that
\* found it clear, and a check that finds the flag set issues no poll:
\* connect returns the interruption error whatever the node would answer.
C4_FlagCheckedFirst ==
    /\ [](InHorizon =>
            \A i \in 1 .. Len(trace) :
                trace[i].ev = "rpc_poll" =>
                    i > 1 /\ trace[i - 1].ev = "exit_flag.poll" /\ trace[i - 1].arg = "clear")
    /\ [][(pc = "exit_flag_poll" /\ exit_flag /\ pc' # pc) =>
            /\ pc' = "returned"
            /\ ~result'.ok
            /\ result'.err = <<"bitcoin RPC polling interrupted", "exiting due to signal">>
            /\ polls' = polls
            /\ SelectSeq(trace', IsPoll) = SelectSeq(trace, IsPoll)]_vars

C4_Witness ==
    /\ Interrupted
    /\ Len(PollInputs) >= 1
    /\ trace[Len(trace)].ev = "exit_flag.poll"
    /\ trace[Len(trace)].arg = "set"

\* C5: a status poll that fails with anything but RPC error -28 is the last
\* thing connect does: it has returned the error, and no sleep, poll,
\* compatibility check or peer-wire connection follows.
C5_FatalPollAborts ==
    InHorizon =>
        \A i \in 1 .. Len(trace) :
            (trace[i].ev = "rpc_poll" /\ trace[i].arg = "fatal") =>
                /\ i = Len(trace)
                /\ pc = "returned"
                /\ ~result.ok
                /\ SubSeq(result.err, 1, 2) = <<"bitcoind RPC polling failed", "daemon not available">>

C5_Witness ==
    /\ pc = "returned"
    /\ Len(PollInputs) >= 2
    /\ PollInputs[Len(PollInputs)] = "fatal"
    /\ trace[Len(trace)].ev = "rpc_poll"

\* The compatibility checks as the claim words them.
TooOld(e) == e.ev = "getnetworkinfo" /\ e.arg.ok /\ e.arg.version < 210000

Inactive(e) == e.ev = "getnetworkinfo" /\ e.arg.ok /\ ~e.arg.network_active

Pruned(e) == e.ev = "getblockchaininfo" /\ e.arg.ok /\ e.arg.pruned

\* C6: a node that reports a version below 210000, an inactive network or
\* pruning makes connect return an error with nothing done after the
\* report; the peer-wire connection, the location lookup and the file open
\* happen only after a network info with a supported version and an active
\* network and then a blockchain info of an unpruned node.
C6_ChecksBeforePeerWire ==
    InHorizon =>
        /\ \A i \in 1 .. Len(trace) :
              (TooOld(trace[i]) \/ Inactive(trace[i]) \/ Pruned(trace[i])) =>
                  i = Len(trace) /\ pc = "returned" /\ ~result.ok
        /\ \A j \in 1 .. Len(trace) :
              trace[j].ev \in {"p2p.connect", "getblocklocations", "open", "decode"} =>
                  \E i \in 1 .. j - 1, k \in 1 .. j - 1 :
                      /\ i < k
                      /\ trace[i].ev = "getnetworkinfo" /\ trace[i].arg.ok
                      /\ trace[i].arg.version >= 210000 /\ trace[i].arg.network_active
                      /\ trace[k].ev = "getblockchaininfo" /\ trace[k].arg.ok
                      /\ ~trace[k].arg.pruned

C6_Witness ==
    /\ pc = "returned"
    /\ ~result.ok
    /\ Len(trace) >= 1
    /\ Pruned(trace[Len(trace)])
    /\ ~Called("p2p.connect")

\* connect handed a Daemon to its caller.
DaemonReturned == pc = "returned" /\ result.ok

\* The node and disk the final verification met.
VerifiedWorld ==
    LET i == CHOOSE i \in 1 .. Len(trace) : trace[i].ev = "world"
    IN  trace[i].arg

\* The best block lies where the node says it does.
BestBlockOnDisk(w, best) ==
    LET pos == w.locOf[best]
    IN  /\ FileName(pos.file_id) \in w.files
        /\ w.disk[pos].kind = "block"
        /\ block_hash(w.disk[pos].block) = best

\* C7: a Daemon is returned only after getblocklocations was called for the
\* best block hash, the file at the position it named was opened and
\* decoded, and the block there hashes to the best block hash; when the
\* lookup, the open, the decode or the comparison fails, connect returns an
\* error, and in no such case a Daemon.
C7_VerifiedBeforeReturn ==
    InHorizon =>
        /\ DaemonReturned =>
              /\ Called("world")
              /\ VerifiedWorld.rpc_ok /\ VerifiedWorld.skew = 0
              /\ BestBlockOnDisk(VerifiedWorld, info.best_block_hash)
              /\ \E i, j, k \in 1 .. Len(trace) :
                    /\ i < j /\ j < k
                    /\ trace[i].ev = "getblocklocations"
                    /\ trace[i].arg = <<info.best_block_hash>>
                    /\ trace[j].ev = "open"
                    /\ trace[j].arg = VerifiedWorld.locOf[info.best_block_hash]
                    /\ trace[k].ev = "decode"
                    /\ trace[k].arg = trace[j].arg
        /\ (/\ Called("world")
            /\ \/ ~VerifiedWorld.rpc_ok
               \/ VerifiedWorld.skew = 0
                    /\ ~BestBlockOnDisk(VerifiedWorld, info.best_block_hash)) =>
              pc = "returned" /\ ~result.ok

C7_Witness ==
    /\ DaemonReturned
    /\ Called("decode")
    /\ Len(PollInputs) >= 2

\* -------------------------------------------- properties of get_existing

Called_get_existing == batch # NoBatch

Distinct(xs) == \A i, j \in 1 .. Len(xs) : i # j => xs[i] # xs[j]

\* The response type and the transform of each call site.
TypeOf(command) == IF command = "getmempoolentry" THEN "GetMempoolEntryResult" ELSE "String"

Transform(command, v) == IF command = "getmempoolentry" THEN Ok(v) ELSE tx_from_hex(v)

\* The i-th response is present, is no error, has the expected shape, and
\* its transform succeeds.
Resolved(command, item) ==
    /\ item.present
    /\ ~item.error
    /\ item.result.type = (IF command = "getmempoolentry" THEN "object" ELSE "string")
    /\ Transform(command, item.result.v).ok

\* C8: for a non-empty sequence of distinct identifiers and a batch call
\* that succeeds, get_existing returns Ok with a mapping whose keys are
\* exactly the identifiers whose same-position response resolved, each
\* mapped to the transform of that response.
C8_ExactlyTheResolved ==
    (Called_get_existing /\ batch.txids # << >> /\ Distinct(batch.txids) /\ batch.reply.ok) =>
        LET n == Len(batch.txids)
            good == {i \in 1 .. n : Resolved(batch.command, batch.reply.val[i])}
        IN  /\ batch.result.ok
            /\ DOMAIN batch.result.val = {batch.txids[i] : i \in good}
            /\ \A i \in good :
                  batch.result.val[batch.txids[i]]
                      = Transform(batch.command, batch.reply.val[i].result.v).val

C8_Witness ==
    /\ Called_get_existing
    /\ batch.command = "getrawtransaction"
    /\ Len(batch.txids) = 2
    /\ Distinct(batch.txids)
    /\ batch.reply.ok
    /\ ~Resolved(batch.command, batch.reply.val[1])
    /\ Resolved(batch.command, batch.reply.val[2])
    /\ batch.result.ok
    /\ DOMAIN batch.result.val = {batch.txids[2]}

\* C9: with no identifiers get_existing sends nothing and returns the empty
\* mapping; with some it sends exactly one batch, holding one request per
\* identifier, the command applied to that identifier, in input order.
C9_OneRoundTrip ==
    Called_get_existing =>
        /\ Len(batch.sent) <= 1
        /\ batch.txids = << >> =>
              batch.sent = << >> /\ batch.result.ok /\ DOMAIN batch.result.val = {}
        /\ batch.txids # << >> =>
              /\ Len(batch.sent) = 1
              /\ Len(batch.sent[1]) = Len(batch.txids)
              /\ \A i \in 1 .. Len(batch.txids) :
                    /\ batch.sent[1][i].method = batch.command
                    /\ batch.sent[1][i].params = <<batch.txids[i]>>

C9_Witness ==
    /\ Called_get_existing
    /\ batch.txids = << >>
    /\ batch.sent = << >>
    /\ batch.result.ok

\* C10: get_existing returns an error exactly when it sent the batch and
\* send_batch failed, and the error carries no mapping.
C10_ErrorIffBatchFails ==
    Called_get_existing =>
        /\ ~batch.result.ok <=> (batch.sent # << >> /\ ~batch.reply.ok)
        /\ ~batch.result.ok => "val" \notin DOMAIN batch.result

C10_Witness ==
    /\ Called_get_existing
    /\ Len(batch.txids) = 2
    /\ ~batch.reply.ok
    /\ ~batch.result.ok

\* ---------------------------------------------- properties of the block reads

\* The lookup answers with one position for the hash, the file of that
\* position is there, and a block is encoded at the position.
ReadsABlock(w, h) ==
    /\ w.rpc_ok
    /\ w.skew = 0
    /\ FileName(w.locOf[h].file_id) \in w.files
    /\ w.disk[w.locOf[h]].kind = "block"

\* Lookup, open and decode succeed, and the block decoded hashes to h.
Passes(w, h) == ReadsABlock(w, h) /\ block_hash(w.disk[w.locOf[h]].block) = h

\* The node points h at the bytes of a block whose true hash is not h.
Mispointed(w, h) == ReadsABlock(w, h) /\ block_hash(w.disk[w.locOf[h]].block) # h

IncorrectBlock(out) ==
    ~IsPanic(out) /\ ~out.ok /\ out.err = <<"incorrect block loaded">>

IsOk(out) == ~IsPanic(out) /\ out.ok

\* C11 as claimed: verify_blocks returns Ok exactly when every hash of the
\* list passes its lookup, open, decode and hash comparison, and whenever
\* some hash of the list is pointed at the bytes of a block with another
\* hash it returns the "incorrect block loaded" error.
C11_Claimed ==
    call.op = "verify_blocks" =>
        /\ IsOk(call.out) <=> \A i \in 1 .. Len(call.arg) : Passes(call.world, call.arg[i])
        /\ (\E i \in 1 .. Len(call.arg) : Mispointed(call.world, call.arg[i])) =>
              IncorrectBlock(call.out)

\* C11, amended: verify_blocks returns Ok exactly when every hash of the
\* list passes; when some hash is pointed at the bytes of a block with
\* another hash it returns an error, and the error is "incorrect block
\* loaded" when every hash before the first such one passes.
C11_OkIffAllPass ==
    call.op = "verify_blocks" =>
        /\ IsOk(call.out) <=> \A i \in 1 .. Len(call.arg) : Passes(call.world, call.arg[i])
        /\ \A i \in 1 .. Len(call.arg) :
              Mispointed(call.world, call.arg[i]) =>
                  /\ ~IsPanic(call.out)
                  /\ ~call.out.ok
                  /\ (\A j \in 1 .. i - 1 : Passes(call.world, call.arg[j])) =>
                        IncorrectBlock(call.out)

C11_Witness ==
    /\ call.op = "verify_blocks"
    /\ Len(call.arg) = 2
    /\ Passes(call.world, call.arg[1])
    /\ Mispointed(call.world, call.arg[2])
    /\ IncorrectBlock(call.out)

\* C12: an operation that reads a block for a requested hash returns
\* successfully only when the block read hashes to that hash: a successful
\* verify_blocks read a matching block for every hash, and the HeaderRow a
\* successful get_genesis returns has hash equal to the block hash of its
\* own header, whatever position the node's lookup named.
C12_ReadMatchesRequestedHash ==
    /\ (call.op = "verify_blocks" /\ IsOk(call.out)) =>
          \A i \in 1 .. Len(call.arg) : Passes(call.world, call.arg[i])
    /\ (call.op = "get_genesis" /\ IsOk(call.out)) =>
          /\ call.out.val.hash = call.arg.val
          /\ header_block_hash(call.out.val.header) = call.out.val.hash

\* -------------------------------------- properties of the shared Daemon

\* A get_new_headers call has ended whose peer-wire handle and location
\* lookup both answered.
HeadersResolved ==
    /\ call.op = "get_new_headers"
    /\ ~call.p2p.failed
    /\ call.world.rpc_ok

\* The positions the node answered the lookup of that call with.
PositionsAnswered == node_getblocklocations(call.world, call.p2p.blockhashes).val

\* C13: when the peer-wire handle returned N hashes and the lookup N
\* positions, get_new_headers returns N pairs, the i-th pairing the i-th
\* hash with the i-th position; when the counts differ it panics and
\* returns no pairing, a shorter one included.
C13_PairsIndexForIndex ==
    HeadersResolved =>
        LET blockhashes == call.p2p.blockhashes
            positions == PositionsAnswered
        IN  IF Len(blockhashes) = Len(positions)
            THEN /\ IsOk(call.out)
                 /\ Len(call.out.val) = Len(blockhashes)
                 /\ \A i \in 1 .. Len(blockhashes) :
                       /\ call.out.val[i].hash = blockhashes[i]
                       /\ call.out.val[i].pos = positions[i]
            ELSE /\ IsPanic(call.out)
                 /\ call.out.msg = "assertion failed: blockhashes.len() == positions.len()"

C13_Witness ==
    /\ HeadersResolved
    /\ Len(call.p2p.blockhashes) = 2
    /\ Len(PositionsAnswered) = 2
    /\ IsOk(call.out)
    /\ call.out.val[1].pos # call.out.val[2].pos
    /\ \E t \in Threads : threads[t].pc = "gnh_p2p"

\* The threads executing an operation of the peer-wire Connection.
InsideHandle == {t \in Threads : threads[t].pc \in InHandle}

\* C14: whatever the threads calling get_new_headers and
\* new_block_notification do, at most one of them is executing an operation
\* on the peer-wire Connection, and it is the one holding the Mutex.
C14_OneThreadInHandle ==
    /\ Cardinality(InsideHandle) <= 1
    /\ \A t \in InsideHandle : p2p_lock = t

C14_Witness ==
    \E t, u \in Threads :
        /\ t # u
        /\ threads[t].pc = "gnh_p2p"
        /\ threads[u].pc = "nbn_lock"
        /\ p2p_lock = t
        /\ call.op = "new_block_notification"

\* The operations that never touch the Mutex.
IsRpcOnly(c) == c.op \in RpcOnlyOps

\* The RPC queries among them: the fee, broadcast, transaction and mempool
\* queries and the two batched lookups.
RpcQueries == RpcOnlyOps \ {"verify_blocks"}

\* C15: the Mutex is held exactly while a peer-wire operation runs: a thread
\* at the getblocklocations call of get_new_headers, or waiting on the
\* receiver new_block_notification handed out, or outside both operations,
\* does not hold it; an RPC-only operation leaves the Mutex as it is, and a
\* thread outside both operations can run any RPC query whoever holds the
\* Mutex.
C15_LockOnlyAroundPeerWire ==
    /\ [](\A t \in Threads :
            /\ p2p_lock = t <=> threads[t].pc \in InHandle
            /\ threads[t].pc \in {"gnh_locations", "recv_wait", "idle"} => p2p_lock # t
            /\ threads[t].pc = "idle" =>
                  \A op \in RpcQueries : ENABLED Rpc_only_call(t, op, FALSE))
    /\ [][(IsRpcOnly(call') /\ call' # call) => p2p_lock' = p2p_lock /\ threads' = threads]_vars
    /\ [][\A t \in Threads :
            (threads[t].pc = "gnh_locations" /\ threads'[t].pc # "gnh_locations") =>
                p2p_lock # t /\ p2p_lock' = p2p_lock]_vars

C15_Witness ==
    /\ IsRpcOnly(call)
    /\ call.io[1].arg # Unlocked
    /\ IsOk(call.out)
    /\ \E t \in Threads :
          threads[t].pc = "gnh_p2p" /\ p2p_lock = t /\ call.io[1].arg = t

\* A header sync ended by the failure of the peer-wire handle.
SyncFailed(c) == c.op = "get_new_headers" /\ c.p2p.failed

\* C20: when the handle's get_new_headers fails, Daemon::get_new_headers
\* returns that error, issues no getblocklocations call and releases the
\* Mutex; a thread waiting for the Mutex can then take it.
C20_FailedSyncReleasesLock ==
    /\ [](SyncFailed(call) =>
            /\ ~IsPanic(call.out)
            /\ ~call.out.ok
            /\ call.out = Connection_get_new_headers(call.p2p)
            /\ \A i \in 1 .. Len(call.io) : call.io[i].ev # "getblocklocations")
    /\ [][\A t \in Threads :
            (threads[t].pc = "gnh_p2p" /\ threads'[t].pc \notin {"gnh_p2p", "gnh_locations"}) =>
                /\ threads'[t].pc = "idle"
                /\ SyncFailed(call')
                /\ p2p_lock' = Unlocked
                /\ \A u \in Threads :
                      threads'[u].pc \in {"gnh_lock", "nbn_lock"} =>
                          can_lock(p2p_lock')]_vars

C20_Witness ==
    /\ SyncFailed(call)
    /\ \E t, u \in Threads :
          /\ t # u
          /\ threads[t].pc = "idle"
          /\ threads[u].pc = "nbn_p2p"
          /\ p2p_lock = u

\* ----------------------------------------- properties of the status poll

\* C16: a successful status poll yields Retry exactly when the node reports
\* initial block download or more headers than blocks; with headers <=
\* blocks (headers < blocks included) and no initial block download the
\* poll is Done(Ok): no retry, no panic, no wrapped difference.
C16_RetryIffBehind ==
    (call.op = "rpc_poll" /\ call.arg.ok) =>
        /\ call.out.tag = "Retry" <=>
              (call.arg.initial_block_download \/ call.arg.headers > call.arg.blocks)
        /\ (call.arg.headers <= call.arg.blocks /\ ~call.arg.initial_block_download) =>
              call.out.tag = "Done" /\ call.out.result.ok

\* ----------------------------------------- properties of the cookie file

\* A cookie file was read as text.
CookieRead == call.op = "read_cookie" /\ call.arg.exists /\ call.arg.readable

\* C17: contents without a ':' fail with the parse error; any other
\* contents yield the text before the first ':' (which holds no ':') and
\* all the text after it, so that user, ':' and password put together are
\* the contents again and later ':' stay in the password.
C17_SplitsAtFirstColon ==
    CookieRead =>
        IF ":" \notin Range(call.arg.contents)
        THEN /\ ~call.out.ok
             /\ call.out.err = <<"failed to parse bitcoind cookie - missing ':' separator">>
        ELSE /\ call.out.ok
             /\ ":" \notin Range(call.out.val[1])
             /\ call.out.val[1] \o <<":">> \o call.out.val[2] = call.arg.contents

C17_Witness ==
    /\ CookieRead
    /\ call.out.ok
    /\ call.out.val[1] = <<"u">>
    /\ call.out.val[2] = <<"p", ":">>

\* ------------------------------------ properties of connect's error paths

\* C18: a status poll that meets a node still syncing or answering with
\* RPC error -28 is handled by retrying: a sleep follows it, and connect
\* neither returns nor unwinds on it; an error connect returns is the
\* interruption error or stems from a failure that is not transient, and a
\* "bitcoind RPC polling failed" error stems from a fatal poll.
C18_TransientNeverSurfaced ==
    InHorizon =>
        /\ \A i \in 1 .. Len(trace) :
              (IsPoll(trace[i]) /\ Retryable(trace[i].arg)) =>
                  IF i = Len(trace) THEN pc = "sleep" ELSE trace[i + 1].ev = "sleep"
        /\ (pc = "returned" /\ ~result.ok /\ trace # << >>) =>
              \/ Interrupted /\ trace[Len(trace)].ev = "exit_flag.poll"
              \/ ~IsPoll(trace[Len(trace)]) /\ trace[Len(trace)].ev # "exit_flag.poll"
              \/ IsPoll(trace[Len(trace)]) /\ trace[Len(trace)].arg = "fatal"
                    /\ result.err[1] = "bitcoind RPC polling failed"

\* ------------------------------------- properties of the positions read

\* The hashes a call of verify_blocks or get_genesis has to read, in order.
HashesToRead ==
    IF call.op = "verify_blocks" THEN call.arg
    ELSE IF call.arg.ok THEN <<call.arg.val>> ELSE << >>

IsLookup(e) == e.ev = "getblocklocations"

IsOpen(e) == e.ev = "open"

\* C19: every open of a block file follows, in the same read_block, a
\* getblocklocations call for the one hash being read, and uses the one
\* position the node answered that call with; the k-th lookup of a call is
\* for the k-th hash it has to read; and when the node answers a lookup with
\* no position or with two, the call panics without opening a file after it.
C19_PositionFromOwnLookup ==
    call.op \in {"verify_blocks", "get_genesis"} =>
        LET io == call.io
            lookups == SelectSeq(io, IsLookup)
        IN  /\ Len(lookups) <= Len(HashesToRead)
            /\ \A k \in 1 .. Len(lookups) : lookups[k].arg = <<HashesToRead[k]>>
            /\ \A j \in 1 .. Len(io) :
                  IsOpen(io[j]) =>
                      /\ j > 1
                      /\ IsLookup(io[j - 1])
                      /\ LET reply == node_getblocklocations(call.world, io[j - 1].arg)
                         IN  reply.ok /\ Len(reply.val) = 1 /\ io[j].arg = reply.val[1]
            /\ \A j \in 1 .. Len(io) :
                  (/\ IsLookup(io[j])
                   /\ node_getblocklocations(call.world, io[j].arg).ok
                   /\ Len(node_getblocklocations(call.world, io[j].arg).val) # 1) =>
                      /\ j = Len(io)
                      /\ IsPanic(call.out)
                      /\ call.out.msg = "assertion failed: locations.len() == 1"

C19_Witness ==
    /\ call.op = "verify_blocks"
    /\ IsOk(call.out)
    /\ Len(call.arg) = 2
    /\ call.arg[1] # call.arg[2]
    /\ Len(SelectSeq(call.io, IsOpen)) = 2
    /\ call.io[2].arg # call.io[5].arg

=============================================================================
